---- MODULE Spec2Model ----
(***************************************************************************)
(* A model of flac-rs (src/src/lib.rs): Stream::new, Stream::blocks,       *)
(* parse_header, parse_stream_info and parse_vorbis_comment, driven the    *)
(* way src/src/bin/metaflacrs.rs drives them (new, then blocks once).      *)
(*                                                                         *)
(* Bytes are naturals 0..255.  Sequences are 1-indexed, so the byte the    *)
(* source calls buf[k] is buf[k + 1] here; Slice(buf, a, b) is the Rust    *)
(* range &buf[a..b] with its 0-based, end-exclusive bounds.                *)
(*                                                                         *)
(* u32 and u64 values are kept as bit vectors (sequences of 0/1, most      *)
(* significant bit first) because they do not fit the checker's integers;  *)
(* a value is turned into a natural only where the code's own value is     *)
(* small enough.                                                           *)
(***************************************************************************)
EXTENDS Integers, Sequences, FiniteSets, TLC

VARIABLES
    src,        \* the bytes of the underlying reader (T: Read + Seek)
    pos,        \* the reader's cursor: number of bytes consumed so far
    pc,         \* position of the driver: "new", "header", "body", "dispatch", "done"
    new_result, \* io::Result<Stream> of Stream::new
    meta_buf,   \* blocks(): let mut meta_buf = [0; 4]
    metadata,   \* blocks(): let metadata = parse_header(meta_buf); <<>> or <<Header>>
    block_buf,  \* blocks(): let mut block_buf = vec![0; block_length]
    blocks,     \* blocks(): let mut blocks = Vec::new()
    result      \* io::Result<Vec<(Header, Block)>> of Stream::blocks, or a panic

vars == <<src, pos, pc, new_result, meta_buf, metadata, block_buf, blocks, result>>

----------------------------------------------------------------------------
(* Fixed-width integers as bit vectors.                                    *)

RECURSIVE Val(_)
\* The natural number a bit vector denotes (used only where it is < 2^31).
Val(bits) ==
    IF Len(bits) = 0 THEN 0
    ELSE 2 * Val(SubSeq(bits, 1, Len(bits) - 1)) + bits[Len(bits)]

\* The w-bit vector of n, for w <= 30.
ToBits(n, w) == [i \in 1..w |-> (n \div (2 ^ (w - i))) % 2]

ByteBits(b) == ToBits(b, 8)

RECURSIVE ConcatBytes(_)
\* The bit vector of a byte string, first byte most significant.
ConcatBytes(bytes) ==
    IF Len(bytes) = 0 THEN <<>>
    ELSE ByteBits(bytes[1]) \o ConcatBytes(Tail(bytes))

Reverse(s) == [i \in 1..Len(s) |-> s[Len(s) + 1 - i]]

RECURSIVE HexBits(_)
\* The bit vector of a hexadecimal literal given by its digits.
HexBits(digits) ==
    IF Len(digits) = 0 THEN <<>>
    ELSE ToBits(digits[1], 4) \o HexBits(Tail(digits))

\* x & y, x | y on vectors of one width; x >> n keeps the width.
AndBits(x, y) == [i \in 1..Len(x) |-> x[i] * y[i]]
OrBits(x, y) == [i \in 1..Len(x) |-> IF x[i] + y[i] > 0 THEN 1 ELSE 0]
ShrBits(x, n) ==
    [i \in 1..Len(x) |-> IF i <= n THEN 0 ELSE x[i - n]]

\* u8 operators.
And8(a, b) == Val(AndBits(ByteBits(a), ByteBits(b)))
Or8(a, b) == Val(OrBits(ByteBits(a), ByteBits(b)))
Shr8(a, n) == Val(ShrBits(ByteBits(a), n))

\* byteorder::BE / byteorder::LE.
BE_read_u16(s) == ConcatBytes(s)
BE_read_u32(s) == ConcatBytes(s)
BE_read_u64(s) == ConcatBytes(s)
LE_read_u32(s) == ConcatBytes(Reverse(s))

----------------------------------------------------------------------------
(* The reader.                                                             *)

\* &buf[a..b]: a panic unless a <= b <= buf.len().
SliceOk(buf, a, b) == a <= b /\ b <= Len(buf)
Slice(buf, a, b) == SubSeq(buf, a + 1, b)

\* Read::read_exact asked for n bytes at cursor p: whether it can fill the
\* buffer, and the bytes it yields.
CanRead(s, p, n) == p + n <= Len(s)
ReadBytes(s, p, n) == SubSeq(s, p + 1, p + n)

\* Where a failed read_exact may leave the cursor.  The trait leaves it
\* unspecified; the readers used (File, Cursor) either consume what was
\* left or consume nothing.
EofPositions(s, p) == {p, Len(s)}

Ok(v) == [kind |-> "Ok", value |-> v]
Err(e) == [kind |-> "Err", value |-> e]
Panic(e) == [kind |-> "Panic", value |-> e]
Pending == [kind |-> "Pending", value |-> "none"]

magic == <<102, 76, 97, 67>>

----------------------------------------------------------------------------
(* parse_header                                                            *)

\* parse_header with the length masked to 16 bits (0x0000_ffff).
parse_header_mask16(buf) ==
    [ last_block   |-> Shr8(buf[1], 7) = 1,
      block_type   |-> And8(buf[1], 127),
      block_length |-> Val(AndBits(BE_read_u32(Slice(buf, 0, 4)),
                                   HexBits(<<0, 0, 0, 0, 15, 15, 15, 15>>))) ]

parse_header(buf) ==
    [ last_block   |-> Shr8(buf[1], 7) = 1,
      block_type   |-> And8(buf[1], 127),
      block_length |-> Val(AndBits(BE_read_u32(Slice(buf, 0, 4)),
                                   HexBits(<<0, 0, 15, 15, 15, 15, 15, 15>>))) ]

----------------------------------------------------------------------------
(* parse_stream_info                                                       *)

ErrStreamInfoSize ==
    [kind |-> "InvalidInput", msg |-> "incorrect size for FLAC stream info block"]

si_minimum_block_size(buf) == Val(BE_read_u16(Slice(buf, 0, 2)))
si_maximum_block_size(buf) == Val(BE_read_u16(Slice(buf, 2, 4)))
si_minimum_frame_size(buf) == Val(ShrBits(BE_read_u32(Slice(buf, 4, 8)), 8))
si_maximum_frame_size(buf) == Val(ShrBits(BE_read_u32(Slice(buf, 7, 11)), 8))
si_sample_rate(buf) == Val(ShrBits(BE_read_u32(Slice(buf, 10, 14)), 12))
si_channels(buf) == And8(buf[13], 14)
si_bits_per_sample(buf) ==
    (Or8(And8(buf[13], 1), Shr8(And8(buf[14], 240), 4)) + 1) % 256
\* si_total_samples with the mask 0x00ff_ffff_ff00_0000, which loses the
\* four high bits of the count.
si_total_samples_mask32(buf) ==
    ShrBits(AndBits(BE_read_u64(Slice(buf, 13, 21)),
                    HexBits(<<0, 0, 15, 15, 15, 15, 15, 15,
                              15, 15, 0, 0, 0, 0, 0, 0>>)),
            24)

\* A u64, kept as its 64 bits.
si_total_samples(buf) ==
    ShrBits(AndBits(BE_read_u64(Slice(buf, 13, 21)),
                    HexBits(<<0, 15, 15, 15, 15, 15, 15, 15,
                              15, 15, 0, 0, 0, 0, 0, 0>>)),
            24)
si_md5_signature(buf) == Slice(buf, 18, 34)

\* parse_stream_info with the size check `buf.len() < 34`.
parse_stream_info_min34(buf) ==
    IF Len(buf) < 34
    THEN Err(ErrStreamInfoSize)
    ELSE Ok([ minimum_block_size |-> si_minimum_block_size(buf),
              maximum_block_size |-> si_maximum_block_size(buf),
              minimum_frame_size |-> si_minimum_frame_size(buf),
              maximum_frame_size |-> si_maximum_frame_size(buf),
              sample_rate        |-> si_sample_rate(buf),
              channels           |-> si_channels(buf),
              bits_per_sample    |-> si_bits_per_sample(buf),
              total_samples      |-> si_total_samples(buf),
              md5_signature      |-> si_md5_signature(buf) ])

parse_stream_info(buf) ==
    IF Len(buf) # 34
    THEN Err(ErrStreamInfoSize)
    ELSE Ok([ minimum_block_size |-> si_minimum_block_size(buf),
              maximum_block_size |-> si_maximum_block_size(buf),
              minimum_frame_size |-> si_minimum_frame_size(buf),
              maximum_frame_size |-> si_maximum_frame_size(buf),
              sample_rate        |-> si_sample_rate(buf),
              channels           |-> si_channels(buf),
              bits_per_sample    |-> si_bits_per_sample(buf),
              total_samples      |-> si_total_samples(buf),
              md5_signature      |-> si_md5_signature(buf) ])

----------------------------------------------------------------------------
(* parse_vorbis_comment                                                    *)

\* `x as usize` for a u32 x, as a natural.  A block body is at most
\* 0xff_ffff bytes long (parse_header masks block_length to 24 bits), so
\* every value of 2^24 or more lies past the end of any body exactly as
\* 2^24 does; such values are represented by 2^24.  usize is taken to be 64
\* bits wide, so `4 + x` and `idx + x` do not overflow.  The same natural
\* stands for the u32 bound of `0..user_comment_list_length`: an iteration
\* needs at least 4 more body bytes, so the body is exhausted long before
\* 2^24 iterations.
as_usize(bits) ==
    IF \E i \in 1..(Len(bits) - 24) : bits[i] = 1
    THEN 16777216
    ELSE Val(bits)

IsCont(b) == b \in 128..191

RECURSIVE from_utf8_ok(_)
\* str::from_utf8(s).is_ok(): s is well-formed UTF-8 (no overlong forms, no
\* surrogates, nothing above U+10FFFF).
from_utf8_ok(s) ==
    IF Len(s) = 0 THEN TRUE
    ELSE LET b == s[1]
             n == Len(s)
         IN  CASE b < 128 -> from_utf8_ok(Tail(s))
               [] b \in 194..223 ->
                    /\ n >= 2 /\ IsCont(s[2])
                    /\ from_utf8_ok(SubSeq(s, 3, n))
               [] b \in 224..239 ->
                    /\ n >= 3 /\ IsCont(s[3])
                    /\ s[2] \in (CASE b = 224 -> 160..191
                                   [] b = 237 -> 128..159
                                   [] OTHER   -> 128..191)
                    /\ from_utf8_ok(SubSeq(s, 4, n))
               [] b \in 240..244 ->
                    /\ n >= 4 /\ IsCont(s[3]) /\ IsCont(s[4])
                    /\ s[2] \in (CASE b = 240 -> 144..191
                                   [] b = 244 -> 128..143
                                   [] OTHER   -> 128..191)
                    /\ from_utf8_ok(SubSeq(s, 5, n))
               [] OTHER -> FALSE

PanicSlice == "slice index out of range"
PanicUnwrap == "called Result::unwrap() on an Err value: Utf8Error"

RECURSIVE read_user_comments_front(_, _, _, _)
\* read_user_comments inserting each comment at the front of the vector.
read_user_comments_front(buf, idx, remaining, user_comments) ==
    IF remaining = 0 THEN Ok(user_comments)
    ELSE IF ~SliceOk(buf, idx, idx + 4) THEN Panic(PanicSlice)
    ELSE LET comment_length == as_usize(LE_read_u32(Slice(buf, idx, idx + 4)))
             start == idx + 4
         IN  IF ~SliceOk(buf, start, start + comment_length)
             THEN Panic(PanicSlice)
             ELSE LET comment == Slice(buf, start, start + comment_length)
                  IN  IF ~from_utf8_ok(comment) THEN Panic(PanicUnwrap)
                      ELSE read_user_comments_front(buf, start + comment_length,
                                                    remaining - 1,
                                                    <<comment>> \o user_comments)

RECURSIVE read_user_comments(_, _, _, _)
\* The loop `for _ in 0..user_comment_list_length`, with `remaining`
\* iterations to go, the cursor at idx and user_comments so far.
read_user_comments(buf, idx, remaining, user_comments) ==
    IF remaining = 0 THEN Ok(user_comments)
    ELSE IF ~SliceOk(buf, idx, idx + 4) THEN Panic(PanicSlice)
    ELSE LET comment_length == as_usize(LE_read_u32(Slice(buf, idx, idx + 4)))
             start == idx + 4
         IN  IF ~SliceOk(buf, start, start + comment_length)
             THEN Panic(PanicSlice)
             ELSE LET comment == Slice(buf, start, start + comment_length)
                  IN  IF ~from_utf8_ok(comment) THEN Panic(PanicUnwrap)
                      ELSE read_user_comments(buf, start + comment_length,
                                              remaining - 1,
                                              Append(user_comments, comment))

\* A String is its UTF-8 bytes, so a decoded text is the byte span itself
\* once from_utf8 has accepted it.
parse_vorbis_comment(buf) ==
    IF ~SliceOk(buf, 0, 4) THEN Panic(PanicSlice)
    ELSE LET vendor_length == as_usize(LE_read_u32(Slice(buf, 0, 4)))
         IN  IF ~SliceOk(buf, 4, 4 + vendor_length) THEN Panic(PanicSlice)
             ELSE LET vendor_string == Slice(buf, 4, 4 + vendor_length)
                      idx == 4 + vendor_length
                  IN  IF ~from_utf8_ok(vendor_string) THEN Panic(PanicUnwrap)
                      ELSE IF ~SliceOk(buf, idx, idx + 4) THEN Panic(PanicSlice)
                      ELSE LET user_comment_list_length ==
                                   as_usize(LE_read_u32(Slice(buf, idx, idx + 4)))
                               r == read_user_comments(buf, idx + 4,
                                        user_comment_list_length, <<>>)
                           IN  IF r.kind # "Ok" THEN r
                               ELSE Ok([ vendor_string |-> vendor_string,
                                         user_comments |-> r.value ])

----------------------------------------------------------------------------
(* Stream::new and Stream::blocks                                          *)

ErrMagic == [kind |-> "InvalidInput", msg |-> "incorrect FLAC magic number"]
ErrEof == [kind |-> "UnexpectedEof", msg |-> "failed to fill whole buffer"]

\* The enum Block: unit variants carry nothing but their tag.
Unit(tag) == [tag |-> tag]

\* The mapping of a decoder's io::Result into the Block it is wrapped in.
Wrap(tag, field, r) ==
    IF r.kind = "Ok" THEN Ok([tag |-> tag] @@ (field :> r.value)) ELSE r

\* match_block_type with the exclusive range 7..126 in place of 7...126.
match_block_type_exclusive(block_type, buf) ==
    CASE block_type = 0 -> Wrap("StreamInfo", "info", parse_stream_info(buf))
      [] block_type = 1 -> Ok(Unit("Padding"))
      [] block_type = 2 -> Ok(Unit("Application"))
      [] block_type = 3 -> Ok(Unit("SeekTable"))
      [] block_type = 4 ->
            Wrap("VorbisComment", "comment", parse_vorbis_comment(buf))
      [] block_type = 5 -> Ok(Unit("CueSheet"))
      [] block_type = 6 -> Ok(Unit("Picture"))
      [] block_type \in 7..125 -> Ok(Unit("Reserved"))
      [] OTHER -> Ok(Unit("Invalid"))

\* The `match metadata.block_type` of blocks().
match_block_type(block_type, buf) ==
    CASE block_type = 0 -> Wrap("StreamInfo", "info", parse_stream_info(buf))
      [] block_type = 1 -> Ok(Unit("Padding"))
      [] block_type = 2 -> Ok(Unit("Application"))
      [] block_type = 3 -> Ok(Unit("SeekTable"))
      [] block_type = 4 ->
            Wrap("VorbisComment", "comment", parse_vorbis_comment(buf))
      [] block_type = 5 -> Ok(Unit("CueSheet"))
      [] block_type = 6 -> Ok(Unit("Picture"))
      [] block_type \in 7..126 -> Ok(Unit("Reserved"))
      [] OTHER -> Ok(Unit("Invalid"))

\* body_len taking block_length to count the 4 header bytes too.
body_len_with_header(header) ==
    IF header.block_length >= 4 THEN header.block_length - 4 ELSE 0

\* vec![0; metadata.block_length as usize]
body_len(header) == header.block_length

\* if metadata.last_block { ...; break; }
loop_breaks(header) == header.last_block

\* magic_matches comparing the first three bytes only.
magic_matches_3(magic_buf) == SubSeq(magic_buf, 1, 3) = SubSeq(magic, 1, 3)

magic_matches(magic_buf) == magic_buf = magic

\* `metadata` and `block_buf` live for one iteration of the loop: metadata
\* is <<>> while no header is held (before the first read, and after the
\* push has moved it into `blocks`), and block_buf is dropped with it.  On
\* an early return both keep the values they had when blocks() returned.
NoHeader == <<>>

\* Stream::new: read_exact of 4 bytes, then the comparison with the magic.
New ==
    /\ pc = "new"
    /\ IF CanRead(src, pos, 4)
       THEN /\ pos' = pos + 4
            /\ IF magic_matches(ReadBytes(src, pos, 4))
               THEN new_result' = Ok("Stream") /\ pc' = "header"
               ELSE new_result' = Err(ErrMagic) /\ pc' = "done"
       ELSE /\ pos' \in EofPositions(src, pos)
            /\ new_result' = Err(ErrEof)
            /\ pc' = "done"
    /\ UNCHANGED <<src, meta_buf, metadata, block_buf, blocks, result>>

\* blocks(), top of the loop: read_exact(&mut meta_buf)?, parse_header.
ReadHeader ==
    /\ pc = "header"
    /\ IF CanRead(src, pos, 4)
       THEN /\ meta_buf' = ReadBytes(src, pos, 4)
            /\ metadata' = <<parse_header(meta_buf')>>
            /\ pos' = pos + 4
            /\ pc' = "body"
            /\ UNCHANGED result
       ELSE /\ pos' \in EofPositions(src, pos)
            /\ result' = Err(ErrEof)
            /\ pc' = "done"
            /\ UNCHANGED <<meta_buf, metadata>>
    /\ UNCHANGED <<src, new_result, block_buf, blocks>>

\* blocks(): allocate block_buf and read_exact(&mut block_buf)?.
ReadBody ==
    /\ pc = "body"
    /\ IF CanRead(src, pos, body_len(metadata[1]))
       THEN /\ block_buf' = ReadBytes(src, pos, body_len(metadata[1]))
            /\ pos' = pos + body_len(metadata[1])
            /\ pc' = "dispatch"
            /\ UNCHANGED result
       ELSE /\ pos' \in EofPositions(src, pos)
            /\ result' = Err(ErrEof)
            /\ pc' = "done"
            /\ UNCHANGED block_buf
    /\ UNCHANGED <<src, new_result, meta_buf, metadata, blocks>>

\* blocks(): the match, the push, and the break or the next iteration.
Dispatch ==
    /\ pc = "dispatch"
    /\ LET block == match_block_type(metadata[1].block_type, block_buf)
       IN  IF block.kind = "Ok"
           THEN /\ blocks' = Append(blocks, [header |-> metadata[1],
                                             block  |-> block.value])
                /\ metadata' = NoHeader
                /\ block_buf' = <<>>
                /\ IF loop_breaks(metadata[1])
                   THEN result' = Ok(blocks') /\ pc' = "done"
                   ELSE result' = result /\ pc' = "header"
           ELSE /\ result' = block
                /\ pc' = "done"
                /\ UNCHANGED <<blocks, metadata, block_buf>>
    /\ UNCHANGED <<src, pos, new_result, meta_buf>>

----------------------------------------------------------------------------
(* The byte sources the reader is opened on.                               *)

MaxBlocks == 2      \* blocks in a generated stream
MaxCut == 3         \* bytes cut off the end of a generated stream
MaxEntries == 2     \* entries in a generated comment body

SeqsUpTo(S, n) == UNION {[1..k -> S] : k \in 0..n}
Take(s, n) == SubSeq(s, 1, n)

RECURSIVE Flatten(_)
Flatten(ss) == IF Len(ss) = 0 THEN <<>> ELSE ss[1] \o Flatten(Tail(ss))

\* Encoders of the container format, used only to build inputs.
Hdr(last, type, len) ==
    <<128 * last + type, len \div 65536, (len \div 256) % 256, len % 256>>
Blk(last, type, body) == Hdr(last, type, Len(body)) \o body
EncLE32(n) == <<n % 256, (n \div 256) % 256, (n \div 65536) % 256, n \div 16777216>>
EncText(t) == EncLE32(Len(t)) \o t
EncComment(vendor, entries) ==
    EncText(vendor) \o EncLE32(Len(entries))
        \o Flatten([i \in 1..Len(entries) |-> EncText(entries[i])])

Override(s, p, v) == [s EXCEPT ![p] = v]

\* 44100 Hz, 2 channels, 16 bits per sample, 1000 samples.
GoldenInfo ==
    << 16, 0, 16, 0, 0, 0, 14, 0, 42, 81, 10, 196, 66, 240, 0, 0, 3, 232,
       161, 162, 163, 164, 165, 166, 167, 168,
       169, 170, 171, 172, 173, 174, 175, 176 >>
RampInfo == [i \in 1..34 |-> (i * 37 + 11) % 256]
Ramp == [i \in 1..36 |-> (i * 53 + 7) % 256]

ByteVals == {0, 1, 15, 16, 112, 127, 128, 240, 255}

InfoBodies ==
    {Override(base, p, v) : base \in {GoldenInfo, RampInfo}, p \in 1..34, v \in ByteVals}
    \cup {Override(Override(base, 13, v), 14, w) :
            base \in {GoldenInfo, RampInfo}, v \in ByteVals, w \in ByteVals}

InfoSources ==
    {magic \o Blk(1, 0, body) : body \in InfoBodies}
    \cup {magic \o Hdr(last, 0, n) \o Take(Ramp, k) :
            last \in {0, 1}, n \in {0, 1, 33, 34, 35}, k \in {0, 1, 33, 34, 35, 36}}

Vendors == {<<>>, <<97>>, <<195, 169>>}
Entries == {<<>>, <<97, 61, 49>>, <<98, 61, 50>>}
CorruptVals == {0, 1, 5, 128, 255}

GoodComments ==
    {EncComment(v, es) : v \in Vendors, es \in SeqsUpTo(Entries, MaxEntries)}

CommentBodies ==
    GoodComments
    \cup {c \o <<0>> : c \in GoodComments}
    \cup UNION {{Take(c, k) : k \in 0..Len(c)} : c \in GoodComments}
    \cup UNION {{Override(c, p, v) : p \in 1..Len(c), v \in CorruptVals} :
                  c \in GoodComments}

CommentSources == {magic \o Blk(1, 4, body) : body \in CommentBodies}

SigBytes == {102, 76, 97, 67, 88}

SigSources ==
    SeqsUpTo(SigBytes, 3)
    \cup {s \o t : s \in [1..4 -> SigBytes], t \in {<<>>, <<129, 0, 0, 0>>}}

HeaderBytes0 == {0, 128, 127, 255, 1, 4, 132, 7, 126, 254}
HeaderBytesLen == {0, 1, 34, 255}

HeaderSources ==
    {magic \o <<b0, b1, b2, b3>> \o t :
        b0 \in HeaderBytes0, b1 \in HeaderBytesLen, b2 \in HeaderBytesLen,
        b3 \in HeaderBytesLen, t \in {<<>>, <<7>>}}

LibBlocks ==
    {Blk(last, t, IF t = 1 THEN <<0, 0>> ELSE IF t = 2 THEN <<9>> ELSE <<>>) :
        last \in {0, 1}, t \in {1, 2, 3, 5, 6, 7, 126, 127}}
    \cup {Blk(last, 0, body) : last \in {0, 1}, body \in {GoldenInfo, Take(GoldenInfo, 33)}}
    \cup {Blk(last, 4, body) :
            last \in {0, 1}, body \in {EncComment(<<97>>, <<(<<97, 61, 49>>)>>), <<1, 0, 0>>}}

Streams == {magic \o Flatten(bs) : bs \in SeqsUpTo(LibBlocks, MaxBlocks)}

WalkSources ==
    UNION {{Take(s, Len(s) - k) : k \in 0..(IF MaxCut < Len(s) THEN MaxCut ELSE Len(s))}
             \cup {s \o <<255>>} : s \in Streams}

Sources == SigSources \cup HeaderSources \cup InfoSources \cup CommentSources \cup WalkSources

----------------------------------------------------------------------------
(* The driver: open a source, Stream::new, then Stream::blocks once.       *)

Init ==
    /\ src \in Sources
    /\ pos = 0
    /\ pc = "new"
    /\ new_result = Pending
    /\ meta_buf = <<0, 0, 0, 0>>
    /\ metadata = NoHeader
    /\ block_buf = <<>>
    /\ blocks = <<>>
    /\ result = Pending

Next == New \/ ReadHeader \/ ReadBody \/ Dispatch

Spec == Init /\ [][Next]_vars

----------------------------------------------------------------------------
(* What the claims are stated with: the container layout read directly off *)
(* the source bytes, independently of the decoders above.                  *)

\* The header whose first byte is at 0-based offset o of the source.
HeaderAt(o) ==
    [ last_block   |-> src[o + 1] >= 128,
      block_type   |-> src[o + 1] % 128,
      block_length |-> src[o + 2] * 65536 + src[o + 3] * 256 + src[o + 4] ]

RECURSIVE EndOfWalk(_, _)
\* The offset just past the blocks whose headers are hs, when hs are exactly
\* the headers met walking the source from offset o, each with its whole
\* body inside the source; -1 otherwise.
EndOfWalk(o, hs) ==
    IF Len(hs) = 0 THEN o
    ELSE IF o + 4 > Len(src) THEN -1
    ELSE IF HeaderAt(o) # hs[1] THEN -1
    ELSE IF o + 4 + hs[1].block_length > Len(src) THEN -1
    ELSE EndOfWalk(o + 4 + hs[1].block_length, Tail(hs))

HeadersOf(pairs) == [i \in 1..Len(pairs) |-> pairs[i].header]

RECURSIVE EndOfPairs(_)
\* The offset just past the last of the given pairs, by their headers.
EndOfPairs(pairs) ==
    IF Len(pairs) = 0 THEN 4
    ELSE EndOfPairs(SubSeq(pairs, 1, Len(pairs) - 1))
            + 4 + pairs[Len(pairs)].header.block_length

\* The body bytes of the i-th pair of `blocks`.
PairBody(i) ==
    SubSeq(src, EndOfPairs(SubSeq(blocks, 1, i - 1)) + 5,
                EndOfPairs(SubSeq(blocks, 1, i)))

HasMagic == Len(src) >= 4 /\ SubSeq(src, 1, 4) = <<102, 76, 97, 67>>

----------------------------------------------------------------------------
(* C10: for every 4 header bytes parse_header returns, without failing,    *)
(* is_terminal = bit 7 of byte 0, block_type = byte 0 with bit 7 cleared   *)
(* and payload_length = the big-endian value of bytes 1-3, whatever the    *)
(* flag and the type are; byte 0 = 0x80, 0x00, 0x7F give (true, 0),        *)
(* (false, 0), (false, 127).                                               *)
C10_HeaderDecoding ==
    pc \in {"body", "dispatch"} =>
        /\ result = Pending
        /\ metadata = << [ last_block   |-> meta_buf[1] >= 128,
                           block_type   |-> meta_buf[1] % 128,
                           block_length |-> meta_buf[2] * 65536
                                            + meta_buf[3] * 256 + meta_buf[4] ] >>
        /\ meta_buf[1] = 128 =>
              metadata[1].last_block /\ metadata[1].block_type = 0
        /\ meta_buf[1] = 0 =>
              ~metadata[1].last_block /\ metadata[1].block_type = 0
        /\ meta_buf[1] = 127 =>
              ~metadata[1].last_block /\ metadata[1].block_type = 127

C10_Witness ==
    /\ pc = "body"
    /\ meta_buf = <<255, 255, 34, 1>>
    /\ metadata = <<[last_block |-> TRUE, block_type |-> 127,
                     block_length |-> 16720385]>>

----------------------------------------------------------------------------
(* C4 as stated: Stream::new succeeds iff the first 4 bytes are 'fLaC',    *)
(* leaving the cursor just past them, and in every other case, a source    *)
(* shorter than 4 bytes included, fails with the invalid-signature error   *)
(* and reads nothing more.                                                 *)
C4_Original ==
    pc # "new" =>
        /\ new_result.kind = "Ok" <=> HasMagic
        /\ new_result.kind # "Ok" =>
              /\ new_result = Err(ErrMagic)
              /\ pc = "done" /\ result = Pending /\ blocks = <<>>

(* C4 as amended: the same, except that a source shorter than 4 bytes      *)
(* fails with read_exact's UnexpectedEof error, not with the               *)
(* invalid-signature error, which is kept for a full 4 bytes that differ.  *)
C4_SignatureCheck ==
    pc # "new" =>
        /\ new_result.kind = "Ok" <=> HasMagic
        /\ (new_result.kind = "Ok" /\ pc = "header" /\ blocks = <<>>) => pos = 4
        /\ new_result.kind # "Ok" =>
              /\ new_result = IF Len(src) >= 4 THEN Err(ErrMagic) ELSE Err(ErrEof)
              /\ pc = "done" /\ result = Pending /\ blocks = <<>>
              /\ metadata = <<>> /\ pos <= 4 /\ pos <= Len(src)

C4_Witness ==
    /\ pc = "done"
    /\ src = <<102, 76, 97, 88, 129, 0, 0, 0>>
    /\ new_result = Err(ErrMagic)
    /\ pos = 4

----------------------------------------------------------------------------
(* C5 as stated: the Block of a pair is decided by block_type alone: 0..6  *)
(* the named variants, 7..126 Reserved carrying the code, anything else    *)
(* Invalid carrying the code; the body is consumed for every variant.      *)
ExpectedTag(t) ==
    CASE t = 0 -> "StreamInfo"
      [] t = 1 -> "Padding"
      [] t = 2 -> "Application"
      [] t = 3 -> "SeekTable"
      [] t = 4 -> "VorbisComment"
      [] t = 5 -> "CueSheet"
      [] t = 6 -> "Picture"
      [] t >= 7 /\ t <= 126 -> "Reserved"
      [] OTHER -> "Invalid"

C5_Original ==
    \A i \in 1..Len(blocks) :
        LET h == blocks[i].header
            b == blocks[i].block
        IN  /\ b.tag = ExpectedTag(h.block_type)
            /\ b.tag \in {"Reserved", "Invalid"} =>
                  "code" \in DOMAIN b /\ b.code = h.block_type

(* C5 as amended: the same table, but Reserved and Invalid are unit        *)
(* variants like Padding: they carry no code (the code remains in the      *)
(* pair's Header).  Every body is consumed: after each push the cursor is  *)
(* just past the bodies of all pairs pushed.                               *)
C5_VariantByType ==
    /\ \A i \in 1..Len(blocks) :
          LET h == blocks[i].header
              b == blocks[i].block
          IN  /\ b.tag = ExpectedTag(h.block_type)
              /\ b.tag \notin {"StreamInfo", "VorbisComment"} => DOMAIN b = {"tag"}
    /\ (pc = "header" \/ (pc = "done" /\ result.kind = "Ok")) =>
          pos = EndOfPairs(blocks)
    /\ pc = "dispatch" =>
          /\ pos = EndOfPairs(blocks) + 4 + metadata[1].block_length
          /\ block_buf = SubSeq(src, pos - metadata[1].block_length + 1, pos)

C5_Witness ==
    /\ pc = "done" /\ result.kind = "Ok" /\ Len(blocks) = 2
    /\ blocks[1].header.block_type = 126 /\ blocks[1].block = [tag |-> "Reserved"]
    /\ blocks[2].header.block_type = 127 /\ blocks[2].block = [tag |-> "Invalid"]

----------------------------------------------------------------------------
(* C2: a successful blocks() covers exactly the source up to and including *)
(* the first terminal block: one pair per header, in source order, the     *)
(* last pair terminal and no earlier one, each block taking 4 + its        *)
(* payload_length bytes, and nothing after the terminal payload is read.   *)
C2_StopsAtFirstTerminal ==
    result.kind = "Ok" =>
        LET hs == HeadersOf(result.value)
        IN  /\ pc = "done" /\ result.value = blocks
            /\ Len(hs) >= 1
            /\ \A i \in 1..Len(hs) : hs[i].last_block <=> i = Len(hs)
            /\ EndOfWalk(4, hs) = pos

C2_Witness ==
    /\ result.kind = "Ok"
    /\ Len(result.value) = 2
    /\ result.value[1].header.block_length = 2
    /\ pos = 4 + 6 + 4
    /\ Len(src) = pos + 1

----------------------------------------------------------------------------
(* C6 as stated: bits_per_sample is one plus the 5-bit field whose top bit *)
(* is bit 0 of the body byte at offset 12 and whose low four bits are the  *)
(* high nibble of the byte at offset 13 (so 1..32 are all decodable).      *)
C6_Original ==
    \A i \in 1..Len(blocks) :
        blocks[i].block.tag = "StreamInfo" =>
            LET body == PairBody(i)
            IN  blocks[i].block.info.bits_per_sample
                    = 1 + 16 * (body[13] % 2) + (body[14] \div 16)

----------------------------------------------------------------------------
(* C7: every 34-byte StreamInfo body decodes bit-exactly: block sizes are  *)
(* the big-endian 16-bit values at offsets 0 and 2, frame sizes the 24-bit *)
(* values of bytes 4-6 and 7-9, sample_rate the top 20 bits of bytes       *)
(* 10-12, total_samples the low nibble of byte 13 followed by bytes 14-17, *)
(* md5_signature bytes 18-33; and 'fLaC' 80 00 00 22 with the body for     *)
(* 44100 Hz and 1000 samples gives exactly one terminal pair with those    *)
(* two values.                                                             *)
C7_StreamInfoFields ==
    /\ \A i \in 1..Len(blocks) :
          blocks[i].block.tag = "StreamInfo" =>
              LET b == PairBody(i)
                  info == blocks[i].block.info
              IN  /\ Len(b) = 34
                  /\ info.minimum_block_size = b[1] * 256 + b[2]
                  /\ info.maximum_block_size = b[3] * 256 + b[4]
                  /\ info.minimum_frame_size = b[5] * 65536 + b[6] * 256 + b[7]
                  /\ info.maximum_frame_size = b[8] * 65536 + b[9] * 256 + b[10]
                  /\ info.sample_rate = b[11] * 4096 + b[12] * 16 + (b[13] \div 16)
                  /\ Len(info.total_samples) = 64
                  /\ \A k \in 1..28 : info.total_samples[k] = 0
                  /\ Val(SubSeq(info.total_samples, 29, 32)) = b[14] % 16
                  /\ Val(SubSeq(info.total_samples, 33, 48)) = b[15] * 256 + b[16]
                  /\ Val(SubSeq(info.total_samples, 49, 64)) = b[17] * 256 + b[18]
                  /\ info.md5_signature = [k \in 1..16 |-> b[18 + k]]
    /\ (pc = "done" /\ src = <<102, 76, 97, 67, 128, 0, 0, 34>> \o GoldenInfo) =>
          /\ result.kind = "Ok"
          /\ Len(result.value) = 1
          /\ result.value[1].header.last_block
          /\ result.value[1].header.block_type = 0
          /\ result.value[1].block.info.sample_rate = 44100
          /\ \A k \in 1..34 : result.value[1].block.info.total_samples[k] = 0
          /\ Val(SubSeq(result.value[1].block.info.total_samples, 35, 64)) = 1000

C7_Witness ==
    /\ pc = "done" /\ result.kind = "Ok" /\ Len(blocks) = 1
    /\ blocks[1].block.tag = "StreamInfo"
    /\ PairBody(1)[14] = 255
    /\ Val(SubSeq(blocks[1].block.info.total_samples, 29, 32)) = 15
    /\ blocks[1].block.info.sample_rate = 44100

----------------------------------------------------------------------------
(* C8 as stated: a header of type 0 whose payload_length is not 34 always  *)
(* makes blocks() fail with the invalid-block-size error, and with         *)
(* payload_length 34 the StreamInfo decoder never fails.                   *)
C8_Original ==
    /\ (pc = "done" /\ metadata # <<>> /\ metadata[1].block_type = 0) =>
          IF metadata[1].block_length # 34
          THEN result = Err(ErrStreamInfoSize)
          ELSE result # Err(ErrStreamInfoSize)
    /\ \A i \in 1..Len(blocks) :
          blocks[i].block.tag = "StreamInfo" => blocks[i].header.block_length = 34

(* C8 as amended: the same where the source supplies the payload_length    *)
(* body bytes; where it does not, blocks() fails on the body read with the *)
(* truncated-read (UnexpectedEof) error before the decoder is reached.     *)
(* A block of type 0 fails in no other way, and no pair is pushed for it.  *)
C8_StreamInfoSize ==
    /\ (pc = "done" /\ metadata # <<>> /\ metadata[1].block_type = 0) =>
          LET len == metadata[1].block_length
              bodyAt == EndOfPairs(blocks) + 4
          IN  /\ result = IF bodyAt + len > Len(src) THEN Err(ErrEof)
                          ELSE Err(ErrStreamInfoSize)
              /\ result = Err(ErrStreamInfoSize) =>
                    len # 34 /\ pos = bodyAt + len
    /\ \A i \in 1..Len(blocks) :
          blocks[i].block.tag = "StreamInfo" => blocks[i].header.block_length = 34

C8_Witness ==
    /\ pc = "done"
    /\ metadata = <<[last_block |-> TRUE, block_type |-> 0, block_length |-> 35]>>
    /\ Len(block_buf) = 35
    /\ result = Err(ErrStreamInfoSize)

----------------------------------------------------------------------------
(* C9: a well-formed comment body decodes to its vendor string and exactly *)
(* its entries in encoded order, none dropped, duplicated or reordered;    *)
(* vendor length 0 gives the empty vendor string and entry count 0 gives   *)
(* no entries.                                                             *)
IsPrefix(p, s) == Len(p) <= Len(s) /\ SubSeq(s, 1, Len(p)) = p

C9_CommentDecoding ==
    /\ \A i \in 1..Len(blocks) :
          blocks[i].block.tag = "VorbisComment" =>
              LET c == blocks[i].block.comment
              IN  /\ IsPrefix(EncComment(c.vendor_string, c.user_comments),
                              PairBody(i))
                  /\ from_utf8_ok(c.vendor_string)
                  /\ \A k \in 1..Len(c.user_comments) :
                        from_utf8_ok(c.user_comments[k])
    /\ (pc = "done" /\ Len(src) > 8 /\ src[5] = 132) =>
          \A v \in Vendors, es \in SeqsUpTo(Entries, MaxEntries),
             t \in {<<>>, <<0>>} :
              src = magic \o Blk(1, 4, EncComment(v, es) \o t) =>
                  /\ result.kind = "Ok"
                  /\ Len(result.value) = 1
                  /\ result.value[1].block =
                        [ tag |-> "VorbisComment",
                          comment |-> [vendor_string |-> v, user_comments |-> es] ]

C9_Witness ==
    /\ pc = "done" /\ result.kind = "Ok" /\ Len(blocks) = 1
    /\ blocks[1].block.tag = "VorbisComment"
    /\ blocks[1].block.comment.vendor_string = <<195, 169>>
    /\ blocks[1].block.comment.user_comments = << <<97, 61, 49>>, <<98, 61, 50>> >>

C9_WitnessEmpty ==
    /\ pc = "done" /\ result.kind = "Ok" /\ Len(blocks) = 1
    /\ blocks[1].block.tag = "VorbisComment"
    /\ blocks[1].block.comment = [vendor_string |-> <<>>, user_comments |-> <<>>]

----------------------------------------------------------------------------
(* C1 as stated: whatever body the comment decoder is handed, decoding     *)
(* ends in a CommentRecord or in a typed, recoverable error (out-of-range  *)
(* length, text decode), never in a process fault.                         *)
C1_Original ==
    (metadata # <<>> /\ metadata[1].block_type = 4) => result.kind # "Panic"

----------------------------------------------------------------------------
(* C3 as stated: blocks() returns a failure, and no block sequence, as     *)
(* soon as a read falls short or a decoder fails; on a source that runs    *)
(* out before a terminal block is complete the call ends in failure.       *)
RECURSIVE RunsOut(_)
\* Walking the source from offset o, it ends before a terminal block is
\* complete.
RunsOut(o) ==
    IF o + 4 > Len(src) THEN TRUE
    ELSE IF o + 4 + HeaderAt(o).block_length > Len(src) THEN TRUE
    ELSE IF HeaderAt(o).last_block THEN FALSE
    ELSE RunsOut(o + 4 + HeaderAt(o).block_length)

C3_Original ==
    (pc = "done" /\ new_result.kind = "Ok") =>
        /\ result.kind \in {"Ok", "Err"}
        /\ RunsOut(4) => result.kind = "Err"

\* What does hold of the code: such a call never returns a block sequence.
C3_NeverOkWhenSourceRunsOut ==
    (pc = "done" /\ new_result.kind = "Ok" /\ RunsOut(4)) => result.kind # "Ok"

====
